---- MODULE Spec2Model ----
(***************************************************************************)
(* Blue Crab storage and versioning engine (src/code/logic/bluecrab.c):    *)
(* the live entry set, the per-entry content hash, the commit log,         *)
(* checkout, branch and merge, modelled as a state machine.                *)
(***************************************************************************)
EXTENDS Integers, Sequences, FiniteSets, TLC

\* ------------------------------------------------------------------------
\* Bounds of the model
\* ------------------------------------------------------------------------
MaxTime == 2
MaxCommits == 2
MaxCalls == 5

\* ------------------------------------------------------------------------
\* C strings: a char* is a TLA+ string, the null pointer is NULL
\* ------------------------------------------------------------------------
NULL == "<NULL>"

\* The bytes of the C strings the model uses (ASCII codes).
StrBytes(s) ==
  CASE s = ""    -> << >>
    [] s = "a"   -> <<97>>
    [] s = "b"   -> <<98>>
    [] s = "m"   -> <<109>>
    [] s = "x"   -> <<120>>
    [] s = "ab"  -> <<97, 98>>
    [] s = "ba"  -> <<98, 97>>
    [] s = "a*"  -> <<97, 42>>
    [] s = "*"   -> <<42>>
    [] s = "*a"  -> <<42, 97>>
    [] s = "^a"  -> <<94, 97>>
    [] s = "a$"  -> <<97, 36>>
    [] s = "(?i)A*" -> <<40, 63, 105, 41, 65, 42>>
    [] s = "(?i)^A" -> <<40, 63, 105, 41, 94, 65>>
    [] s = "(?i)"   -> <<40, 63, 105, 41>>
    [] s = "*a*" -> <<42, 97, 42>>
    [] s = "a**" -> <<97, 42, 42>>
    [] s = "ff" -> <<102, 102>>
    [] s = "00" -> <<48, 48>>

\* ------------------------------------------------------------------------
\* 64-bit unsigned arithmetic on eight little-endian byte limbs
\* ------------------------------------------------------------------------
Limbs == 1..8

\* byte i (0-based) of the two's complement form of the integer v, as the
\* C expression (unsigned char)(v >> (i * 8)) yields it
ByteOf(v, i) ==
  IF i >= 3
    THEN IF v >= 0 THEN (IF i = 3 THEN (v \div 16777216) % 256 ELSE 0)
                   ELSE (IF i = 3 THEN 255 - ((((-v) - 1) \div 16777216) % 256) ELSE 255)
    ELSE IF v >= 0 THEN (v \div (256 ^ i)) % 256
                   ELSE 255 - ((((-v) - 1) \div (256 ^ i)) % 256)

RECURSIVE XorBits(_, _, _)
XorBits(a, b, n) ==
  IF n = 0 THEN 0
  ELSE ((a + b) % 2) + 2 * XorBits(a \div 2, b \div 2, n - 1)

XorByte(a, b) == XorBits(a, b, 8)

Xor64(x, y) == [i \in Limbs |-> XorByte(x[i], y[i])]

\* x >> 33
Shr33(x) ==
  [i \in Limbs |->
     LET lo == IF i + 4 <= 8 THEN x[i + 4] \div 2 ELSE 0
         hi == IF i + 5 <= 8 THEN (x[i + 5] % 2) * 128 ELSE 0
     IN lo + hi]

\* x * y mod 2^64: the schoolbook product, column by column with carries
Mul64(x, y) ==
  LET
      s1 == x[1] * y[1]
      s2 == x[1] * y[2] + x[2] * y[1] + (s1 \div 256)
      s3 == x[1] * y[3] + x[2] * y[2] + x[3] * y[1] + (s2 \div 256)
      s4 == x[1] * y[4] + x[2] * y[3] + x[3] * y[2] + x[4] * y[1] + (s3 \div 256)
      s5 == x[1] * y[5] + x[2] * y[4] + x[3] * y[3] + x[4] * y[2] + x[5] * y[1] + (s4 \div 256)
      s6 == x[1] * y[6] + x[2] * y[5] + x[3] * y[4] + x[4] * y[3] + x[5] * y[2] + x[6] * y[1] + (s5 \div 256)
      s7 == x[1] * y[7] + x[2] * y[6] + x[3] * y[5] + x[4] * y[4] + x[5] * y[3] + x[6] * y[2] + x[7] * y[1] + (s6 \div 256)
      s8 == x[1] * y[8] + x[2] * y[7] + x[3] * y[6] + x[4] * y[5] + x[5] * y[4] + x[6] * y[3] + x[7] * y[2] + x[8] * y[1] + (s7 \div 256)
  IN <<s1 % 256, s2 % 256, s3 % 256, s4 % 256, s5 % 256, s6 % 256, s7 % 256, s8 % 256>>

\* uint64_t hash = 1469598103934665603ULL, which is 0x14650FB0739D0383
FnvOffset == <<131, 3, 157, 115, 176, 15, 101, 20>>
\* 1099511628211 = 0x00000100000001B3
FnvPrime == <<179, 1, 0, 0, 0, 1, 0, 0>>
\* 0xff51afd7ed558ccd
Avalanche1 == <<205, 140, 85, 237, 215, 175, 81, 255>>
\* 0xc4ceb9fe1a85ec53
Avalanche2 == <<83, 236, 133, 26, 254, 185, 206, 196>>

\* MIX_BYTE: hash ^= b; hash *= 1099511628211
MIX_BYTE(h, b) ==
  Mul64([h EXCEPT ![1] = XorByte(h[1], b)], FnvPrime)

RECURSIVE MixBytes(_, _)
MixBytes(h, bytes) ==
  IF bytes = << >> \/ Len(h) # 8 THEN h   \* h is eight limbs at every step
  ELSE MixBytes(MIX_BYTE(h, Head(bytes)), Tail(bytes))

HexDigit == <<"0", "1", "2", "3", "4", "5", "6", "7",
              "8", "9", "A", "B", "C", "D", "E", "F">>

HexByte(b) == HexDigit[(b \div 16) + 1] \o HexDigit[(b % 16) + 1]

\* snprintf(out, 17, "%016llX", hash)
Hex16(h) ==
  HexByte(h[8]) \o HexByte(h[7]) \o HexByte(h[6]) \o HexByte(h[5]) \o
  HexByte(h[4]) \o HexByte(h[3]) \o HexByte(h[2]) \o HexByte(h[1])


\* ------------------------------------------------------------------------
\* Typed values
\* ------------------------------------------------------------------------
\* fossil_bluecrab_core_type_t, in declaration order
FBC_TYPE_I8 == 0
FBC_TYPE_I16 == 1
FBC_TYPE_I32 == 2
FBC_TYPE_I64 == 3
FBC_TYPE_U8 == 4
FBC_TYPE_U16 == 5
FBC_TYPE_U32 == 6
FBC_TYPE_U64 == 7
FBC_TYPE_F32 == 8
FBC_TYPE_F64 == 9
FBC_TYPE_CSTR == 10
FBC_TYPE_CHAR == 11
FBC_TYPE_BOOL == 12
FBC_TYPE_HEX == 13
FBC_TYPE_OCT == 14
FBC_TYPE_BIN == 15
FBC_TYPE_SIZE == 16
FBC_TYPE_DATETIME == 17
FBC_TYPE_DURATION == 18
FBC_TYPE_ANY == 19
FBC_TYPE_NULL == 20

TextTypes == {FBC_TYPE_CSTR, FBC_TYPE_HEX, FBC_TYPE_OCT, FBC_TYPE_BIN}
ScalarTypes ==
  {FBC_TYPE_I8, FBC_TYPE_I16, FBC_TYPE_I32, FBC_TYPE_I64,
   FBC_TYPE_U8, FBC_TYPE_U16, FBC_TYPE_U32, FBC_TYPE_U64,
   FBC_TYPE_F32, FBC_TYPE_F64, FBC_TYPE_CHAR, FBC_TYPE_BOOL,
   FBC_TYPE_SIZE, FBC_TYPE_DATETIME, FBC_TYPE_DURATION}

\* A value is its type tag and the union read two ways: num, the scalar
\* members (for f32/f64 the bit pattern), and ptr, the pointer members (a
\* C string for cstr/hex/oct/bin, a blob for any).  A zeroed union reads
\* as 0 and NULL.
Num(t, n) == [type |-> t, num |-> n, ptr |-> NULL]
Ptr(t, p) == [type |-> t, num |-> 0, ptr |-> p]

\* The values a caller passes to set.
Values ==
  {Num(FBC_TYPE_I32, 1), Ptr(FBC_TYPE_CSTR, "x"), Ptr(FBC_TYPE_ANY, "blob")}

\* The same with a value of a scalar type other than i32.
PersistValues == Values \cup {Num(FBC_TYPE_I64, 5)}

\* Values whose payload is text under a type tag other than cstr.
HexValues == {Ptr(FBC_TYPE_HEX, "ff"), Ptr(FBC_TYPE_HEX, "00")}

\* what the bytes of malloc'd memory that load never writes may hold where
\* an entry keeps a scalar payload
UninitialisedNum == {0, 5}

\* fossil_bluecrab_core_strdup: NULL stays NULL, a string is copied
fossil_bluecrab_core_strdup(s) == s

\* fossil_bluecrab_core_value_copy: memset(&copy, 0), copy the tag, then
\* the member the switch handles; any and null fall to "default: break"
\* and keep the zeroed union.
fossil_bluecrab_core_value_copy(value) ==
  CASE value.type \in TextTypes ->
         Ptr(value.type, fossil_bluecrab_core_strdup(value.ptr))
    [] value.type \in ScalarTypes -> Num(value.type, value.num)
    [] OTHER -> Num(value.type, 0)

\* ------------------------------------------------------------------------
\* Canonical entry hash
\* ------------------------------------------------------------------------
\* sizeof(time_t) and sizeof(size_t) on the LP64 targets of the build
SizeofTimeT == 8
SizeofSizeT == 8

\* for (i = 0; i < n; i++) MIX_BYTE(v >> (i * 8))
LittleEndian(v, n) == [i \in 1..n |-> ByteOf(v, i - 1)]

\* the bytes the "Value (type-aware)" switch mixes in
ValueBytes(value) ==
  CASE value.type \in {FBC_TYPE_I8, FBC_TYPE_U8, FBC_TYPE_CHAR} ->
         LittleEndian(value.num, 1)
    [] value.type \in {FBC_TYPE_I16, FBC_TYPE_U16} -> LittleEndian(value.num, 2)
    [] value.type \in {FBC_TYPE_I32, FBC_TYPE_U32, FBC_TYPE_F32} ->
         LittleEndian(value.num, 4)
    [] value.type \in {FBC_TYPE_I64, FBC_TYPE_U64, FBC_TYPE_F64,
                       FBC_TYPE_DURATION} -> LittleEndian(value.num, 8)
    [] value.type = FBC_TYPE_CSTR ->
         IF value.ptr # NULL THEN StrBytes(value.ptr) ELSE << >>
    [] value.type = FBC_TYPE_BOOL -> <<IF value.num # 0 THEN 1 ELSE 0>>
    [] value.type = FBC_TYPE_SIZE -> LittleEndian(value.num, SizeofSizeT)
    [] value.type = FBC_TYPE_DATETIME -> LittleEndian(value.num, SizeofTimeT)
    [] OTHER -> << >>

\* the byte stream hash_entry feeds to MIX_BYTE, in order
CanonicalStream(entry) ==
  StrBytes(entry.key)
    \o <<entry.value.type % 256, (entry.value.type \div 256) % 256>>
    \o ValueBytes(entry.value)
    \o (IF entry.metadata # NULL THEN StrBytes(entry.metadata) ELSE << >>)
    \o LittleEndian(entry.created_at, SizeofTimeT)
    \o LittleEndian(entry.updated_at, SizeofTimeT)

\* hash ^= hash >> 33; hash *= c1; hash ^= hash >> 33; hash *= c2;
\* hash ^= hash >> 33
FinalAvalanche(h) ==
  LET h1 == Xor64(h, Shr33(h))
      h2 == Mul64(h1, Avalanche1)
      h3 == Xor64(h2, Shr33(h2))
      h4 == Mul64(h3, Avalanche2)
  IN Xor64(h4, Shr33(h4))

Fnv1aHex(bytes) == Hex16(FinalAvalanche(MixBytes(FnvOffset, bytes)))

\* ------------------------------------------------------------------------
\* Inputs
\* ------------------------------------------------------------------------
\* The keys, metadata texts, commit messages and branch names callers
\* pass; every pointer argument may also be NULL.
KeyArgs == {"a", "b"}
EmptyKeyArgs == {"", "a"}
QueryKeyArgs == {"a", "ab", "ba"}
PatternArgs == {"a*", "*", "*a", "a", "^a", "a$", "(?i)A*", ""}

\* keys and patterns for the anchors, the stars and the empty pattern
MatchKeyArgs == {"", "a", "ab", "a*"}
MatchPatternArgs == {"^a", "(?i)^A", "*a*", "a**", "", "(?i)", "a*"}

\* the most entries a snapshot of the model holds: one per key
MaxSnapshot == Cardinality(KeyArgs)
MetaArgs == {"m"}
MessageArgs == {"msg"}
BranchArgs == {"main", "dev"}

\* time(NULL) during the run
Times == 1..MaxTime

\* snprintf(hash, sizeof(hash), "commit_%zu", n)
CommitName(n) == "commit_" \o ToString(n)

CommitArgs == {CommitName(n) : n \in 1..(MaxCommits + 1)}

\* ------------------------------------------------------------------------
\* fossil_bluecrab_core_hash_entry
\* ------------------------------------------------------------------------
StoredValues ==
  {fossil_bluecrab_core_value_copy(v) : v \in PersistValues \cup HexValues}
    \cup {Num(FBC_TYPE_I64, n) : n \in UninitialisedNum}

HashedFields ==
  [key : KeyArgs \cup EmptyKeyArgs \cup QueryKeyArgs \cup MatchKeyArgs, value : StoredValues, metadata : MetaArgs \cup {NULL},
   created_at : Times, updated_at : Times]

\* hash_entry over every entry content of the model, tabulated once (@@
\* makes the table an explicit function)
HashTable == [e \in HashedFields |-> Fnv1aHex(CanonicalStream(e))] @@ << >>

fossil_bluecrab_core_hash_entry(entry) ==
  IF entry.key = NULL THEN NULL
  ELSE HashTable[[key |-> entry.key, value |-> entry.value,
                  metadata |-> entry.metadata,
                  created_at |-> entry.created_at,
                  updated_at |-> entry.updated_at]]

\* ------------------------------------------------------------------------
\* The entry array (db->entries, db->entry_count)
\* ------------------------------------------------------------------------
\* for (i = 0; i < count; i++) if (strcmp(es[i].key, key) == 0): the
\* index of the first entry with that key, 0 when the loop runs out
FindKey(es, key) ==
  IF \E i \in 1..Len(es) : es[i].key = key
    THEN CHOOSE i \in 1..Len(es) :
           /\ es[i].key = key
           /\ \A j \in 1..(i - 1) : es[j].key # key
    ELSE 0

Rehash(entry) ==
  [entry EXCEPT !.hash = fossil_bluecrab_core_hash_entry(entry)]

\* delete without the shift loop: the count drops, the last entry is lost
RemoveLast(es, i) == [j \in 1..(Len(es) - 1) |-> es[j]]

\* the shift loop of fossil_bluecrab_core_delete
RemoveAt(es, i) == [j \in 1..(Len(es) - 1) |-> IF j < i THEN es[j] ELSE es[j + 1]]

\* set without the lookup loop: every call appends
SetEntriesNoLookup(es, key, value, t) ==
  Append(es,
     Rehash([key |-> fossil_bluecrab_core_strdup(key),
             value |-> fossil_bluecrab_core_value_copy(value),
             created_at |-> t, updated_at |-> t,
             metadata |-> NULL, hash |-> NULL]))

\* set that re-inserts an updated entry at the end of the array
SetEntriesMoveToEnd(es, key, value, t) ==
  LET i == FindKey(es, key)
  IN IF i # 0
       THEN Append(RemoveAt(es, i),
               Rehash([es[i] EXCEPT
                         !.value = fossil_bluecrab_core_value_copy(value),
                         !.updated_at = t]))
       ELSE Append(es,
               Rehash([key |-> fossil_bluecrab_core_strdup(key),
                       value |-> fossil_bluecrab_core_value_copy(value),
                       created_at |-> t, updated_at |-> t,
                       metadata |-> NULL, hash |-> NULL]))

\* fossil_bluecrab_core_set on the entry array, at time t
SetEntries(es, key, value, t) ==
  LET i == FindKey(es, key)
  IN IF i # 0
       THEN [es EXCEPT ![i] =
               Rehash([@ EXCEPT !.value = fossil_bluecrab_core_value_copy(value),
                                !.updated_at = t])]
       ELSE Append(es,
               Rehash([key |-> fossil_bluecrab_core_strdup(key),
                       value |-> fossil_bluecrab_core_value_copy(value),
                       created_at |-> t, updated_at |-> t,
                       metadata |-> NULL, hash |-> NULL]))

\* copy_entry: a fresh entry with every field duplicated
copy_entry(entry) ==
  [key |-> fossil_bluecrab_core_strdup(entry.key),
   value |-> fossil_bluecrab_core_value_copy(entry.value),
   created_at |-> entry.created_at,
   updated_at |-> entry.updated_at,
   metadata |-> IF entry.metadata # NULL
                  THEN fossil_bluecrab_core_strdup(entry.metadata) ELSE NULL,
   hash |-> IF entry.hash # NULL THEN entry.hash ELSE NULL]

\* copy_entries(db, &count): a deep copy of db->entries, entry by entry
copy_entries(es) == [i \in 1..Len(es) |-> copy_entry(es[i])]

\* the scan of fossil_bluecrab_core_has_key over db->entries
has_key(es, key) == \E i \in 1..Len(es) : es[i].key = key

\* fossil_bluecrab_core_verify_entry / fossil_bluecrab_core_verify_db
fossil_bluecrab_core_verify_entry(entry) ==
  /\ entry.hash # NULL
  /\ fossil_bluecrab_core_hash_entry(entry) = entry.hash

fossil_bluecrab_core_verify_db(es) ==
  \A i \in 1..Len(es) : fossil_bluecrab_core_verify_entry(es[i])

\* ------------------------------------------------------------------------
\* State
\* ------------------------------------------------------------------------
VARIABLES
  entries,          \* db->entries[0 .. entry_count-1]
  commits,          \* db->commits[0 .. commit_count-1]
  current_commit,   \* db->current_commit
  branch,           \* db->branch
  now,              \* what time(NULL) returns
  out_value,        \* the caller's *out_value of get
  last,             \* the last call: its name, arguments and result
  tips,             \* history: db->current_commit when each branch was left
  disk,             \* the file at db->db_path
  tag_head,         \* the static tag list, the newest node first
  calls             \* the number of calls made so far

vars == <<entries, commits, current_commit, branch, now, out_value, last, tips,
          disk, tag_head, calls>>

NoValue == Num(FBC_TYPE_NULL, 0)

Call(op, key, key2, value, flag, ok) ==
  [op |-> op, key |-> key, key2 |-> key2, value |-> value,
   flag |-> flag, ok |-> ok, out |-> << >>]

\* a call that returned true after printing the report lines
Printed(op, key, key2, lines) ==
  [Call(op, key, key2, NoValue, FALSE, TRUE) EXCEPT !.out = lines]

\* a call that returned false before it looked at the database contents
Refused(op) == Call(op, NULL, NULL, NoValue, FALSE, FALSE)

\* a call that returned the pointer result
Returned(op, key, result) == Call(op, key, result, NoValue, FALSE, result # NULL)

\* no file at db->db_path: fopen(db->db_path, "rb") fails
NoFile ==
  [exists |-> FALSE, cut |-> FALSE, entries |-> << >>, commits |-> << >>,
   branch |-> NULL, current_commit |-> NULL]

\* a branch the caller has not switched away from yet
Unset == "<unset>"

\* fossil_bluecrab_core_init(db, path) on a zeroed handle
Init ==
  /\ entries = << >>
  /\ commits = << >>
  /\ current_commit = NULL
  /\ branch = "main"
  /\ now = 1
  /\ out_value = NoValue
  /\ last = Call("init", NULL, NULL, NoValue, FALSE, TRUE)
  /\ tips = [b \in BranchArgs |-> Unset]
  /\ disk = NoFile
  /\ tag_head = << >>
  /\ calls = 0

\* ------------------------------------------------------------------------
\* CRUD operations
\* ------------------------------------------------------------------------
fossil_bluecrab_core_set(key, value) ==
  /\ IF key = NULL
       THEN UNCHANGED entries
       ELSE entries' = SetEntries(entries, key, value, now)
  /\ last' = IF key = NULL THEN Refused("set")
              ELSE Call("set", key, NULL, value, FALSE, TRUE)
  /\ UNCHANGED <<commits, current_commit, branch, now, out_value, tips, disk, tag_head>>

\* get that hands the stored entry over and drops it from the live set
get_takes_entry(key) ==
  LET i == IF key = NULL THEN 0 ELSE FindKey(entries, key)
  IN /\ IF i # 0
          THEN /\ out_value' = entries[i].value
               /\ entries' = RemoveAt(entries, i)
          ELSE UNCHANGED <<out_value, entries>>
     /\ last' = Call("get", key, NULL, NoValue, FALSE, i # 0)
     /\ UNCHANGED <<commits, current_commit, branch, now, tips, disk, tag_head>>

fossil_bluecrab_core_get(key) ==
  LET i == IF key = NULL THEN 0 ELSE FindKey(entries, key)
  IN /\ IF i # 0
          THEN out_value' = fossil_bluecrab_core_value_copy(entries[i].value)
          ELSE UNCHANGED out_value
     /\ last' = Call("get", key, NULL, NoValue, FALSE, i # 0)
     /\ UNCHANGED <<entries, commits, current_commit, branch, now, tips, disk, tag_head>>

fossil_bluecrab_core_delete(key) ==
  LET i == IF key = NULL THEN 0 ELSE FindKey(entries, key)
  IN /\ IF i # 0
          THEN entries' = RemoveAt(entries, i)
          ELSE UNCHANGED entries
     /\ last' = Call("delete", key, NULL, NoValue, FALSE, i # 0)
     /\ UNCHANGED <<commits, current_commit, branch, now, out_value, tips, disk, tag_head>>

fossil_bluecrab_core_has_key(key) ==
  /\ last' = IF key = NULL THEN Refused("has_key")
              ELSE Call("has_key", key, NULL, NoValue, FALSE, has_key(entries, key))
  /\ UNCHANGED <<entries, commits, current_commit, branch, now, out_value, tips, disk, tag_head>>

\* returns db->entries[i].metadata of the first entry with the key
fossil_bluecrab_core_get_metadata(key) ==
  LET i == IF key = NULL THEN 0 ELSE FindKey(entries, key)
  IN /\ last' = Returned("get_metadata", key,
                         IF i # 0 THEN entries[i].metadata ELSE NULL)
     /\ UNCHANGED <<entries, commits, current_commit, branch, now, out_value,
                    tips, disk, tag_head>>

\* fossil_bluecrab_core_verify_entry(&db->entries[i]), or of a null pointer
\* when i is 0
call_verify_entry(i) ==
  /\ i = 0 \/ i \in 1..Len(entries)
  /\ last' = IF i = 0 THEN Refused("verify_entry")
              ELSE Call("verify_entry", entries[i].key, NULL, NoValue, FALSE,
                        fossil_bluecrab_core_verify_entry(entries[i]))
  /\ UNCHANGED <<entries, commits, current_commit, branch, now, out_value,
                 tips, disk, tag_head>>

\* fossil_bluecrab_core_verify_db(db)
call_verify_db ==
  /\ last' = Call("verify_db", NULL, NULL, NoValue, FALSE,
                  fossil_bluecrab_core_verify_db(entries))
  /\ UNCHANGED <<entries, commits, current_commit, branch, now, out_value,
                 tips, disk, tag_head>>

fossil_bluecrab_core_clear ==
  /\ entries' = << >>
  /\ last' = Call("clear", NULL, NULL, NoValue, FALSE, TRUE)
  /\ UNCHANGED <<commits, current_commit, branch, now, out_value, tips, disk, tag_head>>

\* the metadata pointer is replaced; the stored hash is left as it was
fossil_bluecrab_core_set_metadata(key, metadata) ==
  LET i == IF key = NULL THEN 0 ELSE FindKey(entries, key)
  IN /\ IF i # 0
          THEN entries' = [entries EXCEPT ![i].metadata =
                             IF metadata # NULL THEN metadata ELSE NULL]
          ELSE UNCHANGED entries
     /\ last' = IF key = NULL THEN Refused("set_metadata")
                 ELSE Call("set_metadata", key, metadata, NoValue, FALSE, i # 0)
     /\ UNCHANGED <<commits, current_commit, branch, now, out_value, tips, disk, tag_head>>

\* the clock moves between two calls
Tick ==
  /\ now < MaxTime
  /\ now' = now + 1
  /\ last' = Call("tick", NULL, NULL, NoValue, FALSE, TRUE)
  /\ UNCHANGED <<entries, commits, current_commit, branch, out_value, tips, disk, tag_head>>

\* ------------------------------------------------------------------------
\* Commit log
\* ------------------------------------------------------------------------
\* bluecrab_find_commit(db, id): linear scan of the commit log by id;
\* the index of the first match, 0 for NULL
bluecrab_find_commit(cs, id) ==
  IF \E i \in 1..Len(cs) : cs[i].hash = id
    THEN CHOOSE i \in 1..Len(cs) :
           /\ cs[i].hash = id
           /\ \A j \in 1..(i - 1) : cs[j].hash # id
    ELSE 0

\* bluecrab_find_entry(array, count, key): linear scan of an entry array
\* by key; the index of the first match, 0 for NULL
bluecrab_find_entry(es, key) ==
  IF \E i \in 1..Len(es) : es[i].key = key
    THEN CHOOSE i \in 1..Len(es) :
           /\ es[i].key = key
           /\ \A j \in 1..(i - 1) : es[j].key # key
    ELSE 0

\* commit that numbers the id from db->entry_count
AppendCommitEntryCount(cs, es, message, t) ==
  Append(cs, [snapshot |-> copy_entries(es),
              timestamp |-> t,
              message |-> fossil_bluecrab_core_strdup(message),
              hash |-> CommitName(Len(es) + 1)])

\* commit that puts the new commit in front of the log
PrependCommit(cs, es, message, t) ==
  <<[snapshot |-> copy_entries(es),
     timestamp |-> t,
     message |-> fossil_bluecrab_core_strdup(message),
     hash |-> CommitName(Len(cs) + 1)]>> \o cs

\* the commit fossil_bluecrab_core_commit appends to the log cs for the
\* live entries es at time t
AppendCommit(cs, es, message, t) ==
  Append(cs, [snapshot |-> copy_entries(es),
              timestamp |-> t,
              message |-> fossil_bluecrab_core_strdup(message),
              hash |-> CommitName(Len(cs) + 1)])

\* the parent a commit of the log records: commit assigns snapshot,
\* snapshot_count, timestamp, message and hash, and no parent
parent_id(c) == NULL

fossil_bluecrab_core_commit(message) ==
  /\ Len(commits) < MaxCommits
  /\ IF message = NULL
       THEN UNCHANGED <<commits, current_commit>>
       ELSE /\ commits' = AppendCommit(commits, entries, message, now)
            /\ current_commit' = CommitName(Len(commits) + 1)
  /\ last' = IF message = NULL THEN Refused("commit")
              ELSE Call("commit", message, NULL, NoValue, FALSE, TRUE)
  /\ UNCHANGED <<entries, branch, now, out_value, tips, disk, tag_head>>

\* What copy_entries reads through (fossil_bluecrab_core_db_t *)&db->commits[i]:
\* the fields of a commit that lie where a handle keeps entries and
\* entry_count.  Where the two layouts agree it is the snapshot; where they
\* do not, the count or the array it finds is not the snapshot's and the
\* copy comes back empty.
CommitAsDb(c) == {copy_entries(c.snapshot), << >>}

\* checkout that hands the commit's own snapshot array to the live set
\* instead of a copy, leaving the commit without it
checkout_moves_snapshot(commit_hash) ==
  LET i == IF commit_hash = NULL THEN 0
           ELSE bluecrab_find_commit(commits, commit_hash)
  IN /\ IF i # 0
          THEN /\ entries' = commits[i].snapshot
               /\ commits' = [commits EXCEPT ![i].snapshot = << >>]
               /\ current_commit' = fossil_bluecrab_core_strdup(commit_hash)
          ELSE UNCHANGED <<entries, commits, current_commit>>
     /\ last' = Call("checkout", commit_hash, NULL, NoValue, FALSE, i # 0)
     /\ UNCHANGED <<branch, now, out_value, tips, disk, tag_head>>

\* checkout that frees the live entries before it looks for the commit
checkout_frees_first(commit_hash) ==
  LET i == IF commit_hash = NULL THEN 0
           ELSE bluecrab_find_commit(commits, commit_hash)
  IN /\ IF i # 0
          THEN /\ entries' \in CommitAsDb(commits[i])
               /\ current_commit' = fossil_bluecrab_core_strdup(commit_hash)
          ELSE /\ entries' = << >>
               /\ UNCHANGED current_commit
     /\ last' = Call("checkout", commit_hash, NULL, NoValue, FALSE, i # 0)
     /\ UNCHANGED <<commits, branch, now, out_value, tips, disk, tag_head>>

\* checkout that installs the entries and forgets db->current_commit
checkout_keeps_current(commit_hash) ==
  LET i == IF commit_hash = NULL THEN 0
           ELSE bluecrab_find_commit(commits, commit_hash)
  IN /\ IF i # 0
          THEN entries' \in CommitAsDb(commits[i])
          ELSE UNCHANGED entries
     /\ last' = Call("checkout", commit_hash, NULL, NoValue, FALSE, i # 0)
     /\ UNCHANGED <<commits, current_commit, branch, now, out_value, tips, disk, tag_head>>

fossil_bluecrab_core_checkout(commit_hash) ==
  LET i == IF commit_hash = NULL THEN 0
           ELSE bluecrab_find_commit(commits, commit_hash)
  IN /\ IF i # 0
          THEN /\ entries' \in CommitAsDb(commits[i])
               /\ current_commit' = fossil_bluecrab_core_strdup(commit_hash)
          ELSE UNCHANGED <<entries, current_commit>>
     /\ last' = Call("checkout", commit_hash, NULL, NoValue, FALSE, i # 0)
     /\ UNCHANGED <<commits, branch, now, out_value, tips, disk, tag_head>>

fossil_bluecrab_core_branch(branch_name) ==
  /\ IF branch_name = NULL
       THEN UNCHANGED branch
       ELSE branch' = fossil_bluecrab_core_strdup(branch_name)
  /\ tips' = IF branch_name # NULL /\ branch_name # branch
              THEN [tips EXCEPT ![branch] = current_commit]
              ELSE tips
  /\ last' = IF branch_name = NULL THEN Refused("branch")
              ELSE Call("branch", branch_name, NULL, NoValue, FALSE, TRUE)
  /\ UNCHANGED <<entries, commits, current_commit, now, out_value, disk, tag_head>>

\* ------------------------------------------------------------------------
\* Log and diff: the lines printed after the heading, one pair per line
\* ------------------------------------------------------------------------
\* for (i = 0; i < db->commit_count; i++) printf("  %s - %s (%ld)\n", ...)
LogLines(cs) == [i \in 1..Len(cs) |-> <<"commit", cs[i].hash>>]

fossil_bluecrab_core_log ==
  /\ last' = Printed("log", NULL, NULL, LogLines(commits))
  /\ UNCHANGED <<entries, commits, current_commit, branch, now, out_value, tips, disk, tag_head>>

\* the first loop of diff with the hash test the other way round
RECURSIVE RemovedOrUnmodified(_, _, _)
RemovedOrUnmodified(sa, sb, i) ==
  IF i > Len(sa) THEN << >>
  ELSE LET ea == sa[i]
           j == bluecrab_find_entry(sb, ea.key)
           line == IF j = 0 THEN << <<"removed", ea.key>> >>
                   ELSE IF ea.hash = sb[j].hash
                          THEN << <<"modified", ea.key>> >>
                          ELSE << >>
       IN line \o RemovedOrUnmodified(sa, sb, i + 1)

\* the first loop of diff, over a's snapshot from index i on
RECURSIVE RemovedOrModified(_, _, _)
RemovedOrModified(sa, sb, i) ==
  IF i > Len(sa) THEN << >>
  ELSE LET ea == sa[i]
           j == bluecrab_find_entry(sb, ea.key)
           line == IF j = 0 THEN << <<"removed", ea.key>> >>
                   ELSE IF ea.hash # sb[j].hash
                          THEN << <<"modified", ea.key>> >>
                          ELSE << >>
       IN line \o RemovedOrModified(sa, sb, i + 1)

\* the second loop of diff stopping one entry early
RECURSIVE AddedButLast(_, _, _)
AddedButLast(sa, sb, i) ==
  IF i >= Len(sb) THEN << >>
  ELSE LET eb == sb[i]
           line == IF bluecrab_find_entry(sa, eb.key) = 0
                     THEN << <<"added", eb.key>> >>
                     ELSE << >>
       IN line \o AddedButLast(sa, sb, i + 1)

\* the second loop of diff, over b's snapshot from index i on
RECURSIVE Added(_, _, _)
Added(sa, sb, i) ==
  IF i > Len(sb) THEN << >>
  ELSE LET eb == sb[i]
           line == IF bluecrab_find_entry(sa, eb.key) = 0
                     THEN << <<"added", eb.key>> >>
                     ELSE << >>
       IN line \o Added(sa, sb, i + 1)

DiffLines(sa, sb) == RemovedOrModified(sa, sb, 1) \o Added(sa, sb, 1)

fossil_bluecrab_core_diff(commit_a, commit_b) ==
  LET a == IF commit_a = NULL THEN 0 ELSE bluecrab_find_commit(commits, commit_a)
      b == IF commit_b = NULL THEN 0 ELSE bluecrab_find_commit(commits, commit_b)
  IN /\ last' = IF commit_a = NULL \/ commit_b = NULL THEN Refused("diff")
                 ELSE IF a = 0 \/ b = 0
                        THEN Call("diff", commit_a, commit_b, NoValue, FALSE, FALSE)
                        ELSE Printed("diff", commit_a, commit_b,
                                     DiffLines(commits[a].snapshot,
                                               commits[b].snapshot))
     /\ UNCHANGED <<entries, commits, current_commit, branch, now, out_value,
                    tips, disk, tag_head>>

\* ------------------------------------------------------------------------
\* Query
\* ------------------------------------------------------------------------
\* tolower in the C locale
ToLower(c) == IF c \in 65..90 THEN c + 32 ELSE c

CH_EQ(case_insensitive, x, y) ==
  IF case_insensitive THEN ToLower(x) = ToLower(y) ELSE x = y

\* the index of the first '*' of the bytes, 0 when there is none (strchr)
StarAt(bytes) ==
  IF \E i \in 1..Len(bytes) : bytes[i] = 42
    THEN CHOOSE i \in 1..Len(bytes) :
           bytes[i] = 42 /\ \A j \in 1..(i - 1) : bytes[j] # 42
    ELSE 0

\* string_matches_pattern after the (?i) prefix is taken off, on the bytes
\* of the two strings
MatchesBytes(str, pattern, case_insensitive) ==
  LET plen == Len(pattern)
      slen == Len(str)
      star == StarAt(pattern)
  IN IF plen > 0 /\ pattern[1] = 94
       THEN \* ^foo: compare while both have bytes, then *pattern == 0
            /\ \A i \in 1..(plen - 1) :
                 i <= slen => CH_EQ(case_insensitive, str[i], pattern[i + 1])
            /\ plen - 1 <= slen
     ELSE IF plen > 0 /\ pattern[plen] = 36
       THEN \* bar$: the last plen - 1 bytes of str
            /\ slen >= plen - 1
            /\ \A i \in 1..(plen - 1) :
                 CH_EQ(case_insensitive, str[slen - (plen - 1) + i], pattern[i])
     ELSE IF star # 0
       THEN LET head_len == star - 1
                tail_len == plen - star
            IN /\ \A i \in 1..head_len :
                    i <= slen /\ CH_EQ(case_insensitive, str[i], pattern[i])
               /\ \/ tail_len = 0
                  \/ /\ slen >= head_len + tail_len
                     /\ \A i \in 1..tail_len :
                          CH_EQ(case_insensitive, str[slen - tail_len + i],
                                pattern[star + i])
     ELSE \* substring search from every byte of str
          \E i \in 1..slen :
            /\ i + plen - 1 <= slen
            /\ \A j \in 1..plen : CH_EQ(case_insensitive, str[i + j - 1], pattern[j])

string_matches_pattern(str, pattern) ==
  IF str = NULL \/ pattern = NULL THEN FALSE
  ELSE LET bytes == StrBytes(pattern)
           case_insensitive ==
             Len(bytes) >= 4 /\ SubSeq(bytes, 1, 4) = <<40, 63, 105, 41>>
       IN MatchesBytes(StrBytes(str),
                       IF case_insensitive THEN SubSeq(bytes, 5, Len(bytes))
                       ELSE bytes,
                       case_insensitive)

\* the second loop of find_keys leaving at the first match
RECURSIVE FirstMatchingKey(_, _, _)
FirstMatchingKey(es, pattern, i) ==
  IF i > Len(es) THEN << >>
  ELSE IF string_matches_pattern(es[i].key, pattern)
         THEN <<fossil_bluecrab_core_strdup(es[i].key)>>
         ELSE FirstMatchingKey(es, pattern, i + 1)

\* the second loop of find_keys, from index i on
RECURSIVE MatchingKeys(_, _, _)
MatchingKeys(es, pattern, i) ==
  IF i > Len(es) THEN << >>
  ELSE (IF string_matches_pattern(es[i].key, pattern)
          THEN <<fossil_bluecrab_core_strdup(es[i].key)>>
          ELSE << >>) \o MatchingKeys(es, pattern, i + 1)

\* the second loop of find_entries, from index i on
RECURSIVE MatchingEntries(_, _, _)
MatchingEntries(es, pattern, i) ==
  IF i > Len(es) THEN << >>
  ELSE (IF string_matches_pattern(es[i].key, pattern)
          THEN <<copy_entry(es[i])>>
          ELSE << >>) \o MatchingEntries(es, pattern, i + 1)

\* a query that returned the count of items and set the caller's array
Found(op, pattern, items) ==
  [Call(op, pattern, NULL, NoValue, FALSE, TRUE) EXCEPT !.out = items]

fossil_bluecrab_core_find_keys(pattern) ==
  /\ last' = IF pattern = NULL THEN Refused("find_keys")
              ELSE Found("find_keys", pattern, MatchingKeys(entries, pattern, 1))
  /\ UNCHANGED <<entries, commits, current_commit, branch, now, out_value, tips,
                 disk, tag_head>>

fossil_bluecrab_core_find_entries(pattern) ==
  /\ last' = IF pattern = NULL THEN Refused("find_entries")
              ELSE Found("find_entries", pattern, MatchingEntries(entries, pattern, 1))
  /\ UNCHANGED <<entries, commits, current_commit, branch, now, out_value, tips,
                 disk, tag_head>>

\* ------------------------------------------------------------------------
\* Merge
\* ------------------------------------------------------------------------
\* "Start from target snapshot": set every entry of dst from index i on
RECURSIVE ApplyTarget(_, _, _, _)
ApplyTarget(es, dst, i, t) ==
  IF i > Len(dst) THEN es
  ELSE ApplyTarget(
         SetEntries(es, dst[i].key,
                    fossil_bluecrab_core_value_copy(dst[i].value), t),
         dst, i + 1, t)

\* "Apply source changes" from index i on; ok is FALSE when the loop
\* returns at a conflict
RECURSIVE ApplySource(_, _, _, _, _, _)
ApplySource(es, src, dst, i, auto_resolve_conflicts, t) ==
  IF i > Len(src) THEN [es |-> es, ok |-> TRUE]
  ELSE LET se == src[i]
           j == bluecrab_find_entry(dst, se.key)
           put == SetEntries(es, se.key,
                             fossil_bluecrab_core_value_copy(se.value), t)
       IN IF j = 0
            THEN ApplySource(put, src, dst, i + 1, auto_resolve_conflicts, t)
            ELSE IF se.hash # dst[j].hash
                   THEN IF ~auto_resolve_conflicts
                          THEN [es |-> es, ok |-> FALSE]
                          ELSE ApplySource(put, src, dst, i + 1,
                                           auto_resolve_conflicts, t)
                   ELSE ApplySource(es, src, dst, i + 1,
                                    auto_resolve_conflicts, t)

\* merge with the two snapshots taken the other way round
MergeEntriesSwapped(src, dst, auto_resolve_conflicts, t) ==
  ApplySource(ApplyTarget(<< >>, src, 1, t), dst, src, 1,
              auto_resolve_conflicts, t)

\* the live entries after clear, the target loop and the source loop
MergeEntries(src, dst, auto_resolve_conflicts, t) ==
  ApplySource(ApplyTarget(<< >>, dst, 1, t), src, dst, 1,
              auto_resolve_conflicts, t)

\* merge that commits what it has applied when it stops at a conflict
merge_commits_at_conflict(source_commit, target_commit, auto_resolve_conflicts) ==
  LET s == IF source_commit = NULL THEN 0
           ELSE bluecrab_find_commit(commits, source_commit)
      d == IF target_commit = NULL THEN 0
           ELSE bluecrab_find_commit(commits, target_commit)
      found == source_commit # NULL /\ target_commit # NULL /\ s # 0 /\ d # 0
      r == MergeEntries(commits[s].snapshot, commits[d].snapshot,
                        auto_resolve_conflicts, now)
  IN /\ Len(commits) <= MaxCommits
     /\ IF ~found
          THEN UNCHANGED <<entries, commits, current_commit>>
          ELSE /\ entries' = r.es
               /\ commits' = AppendCommit(commits, r.es, "merge commit", now)
               /\ current_commit' = CommitName(Len(commits) + 1)
     /\ last' = IF source_commit = NULL \/ target_commit = NULL
                   THEN Refused("merge")
                   ELSE Call("merge", source_commit, target_commit, NoValue,
                             auto_resolve_conflicts, found /\ r.ok)
     /\ UNCHANGED <<branch, now, out_value, tips, disk, tag_head>>

fossil_bluecrab_core_merge(source_commit, target_commit, auto_resolve_conflicts) ==
  LET s == IF source_commit = NULL THEN 0
           ELSE bluecrab_find_commit(commits, source_commit)
      d == IF target_commit = NULL THEN 0
           ELSE bluecrab_find_commit(commits, target_commit)
      found == source_commit # NULL /\ target_commit # NULL /\ s # 0 /\ d # 0
      r == MergeEntries(commits[s].snapshot, commits[d].snapshot,
                        auto_resolve_conflicts, now)
  IN /\ Len(commits) <= MaxCommits
     /\ IF ~found
          THEN UNCHANGED <<entries, commits, current_commit>>
          ELSE /\ entries' = r.es
               /\ IF r.ok
                    THEN /\ commits' = AppendCommit(commits, r.es, "merge commit", now)
                         /\ current_commit' = CommitName(Len(commits) + 1)
                    ELSE UNCHANGED <<commits, current_commit>>
     /\ last' = IF source_commit = NULL \/ target_commit = NULL
                   THEN Refused("merge")
                   ELSE Call("merge", source_commit, target_commit, NoValue,
                             auto_resolve_conflicts, found /\ r.ok)
     /\ UNCHANGED <<branch, now, out_value, tips, disk, tag_head>>

\* ------------------------------------------------------------------------
\* Tags
\* ------------------------------------------------------------------------
TagArgs == {"t", "u"}

\* tag_commit that links the new node behind the last node of the list
TagAtTail(tags, commit_hash, tag_name) ==
  Append(tags, [name |-> fossil_bluecrab_core_strdup(tag_name),
                commit_hash |-> fossil_bluecrab_core_strdup(commit_hash)])

\* t->next = tag_head; tag_head = t
TagAtHead(tags, commit_hash, tag_name) ==
  <<[name |-> fossil_bluecrab_core_strdup(tag_name),
     commit_hash |-> fossil_bluecrab_core_strdup(commit_hash)]>> \o tags

fossil_bluecrab_core_tag_commit(commit_hash, tag_name) ==
  /\ IF commit_hash = NULL \/ tag_name = NULL
       THEN /\ UNCHANGED tag_head
            /\ last' = Refused("tag_commit")
       ELSE /\ tag_head' = TagAtHead(tag_head, commit_hash, tag_name)
            /\ last' = Call("tag_commit", commit_hash, tag_name, NoValue, FALSE, TRUE)
  /\ UNCHANGED <<entries, commits, current_commit, branch, now, out_value, tips,
                 disk>>

\* while (t) { if (strcmp(t->name, tag_name) == 0) return t->commit_hash; }
TaggedCommit(tags, tag_name) ==
  IF \E i \in 1..Len(tags) : tags[i].name = tag_name
    THEN tags[CHOOSE i \in 1..Len(tags) :
                /\ tags[i].name = tag_name
                /\ \A j \in 1..(i - 1) : tags[j].name # tag_name].commit_hash
    ELSE NULL

\* tag_name is read without a test: callers pass a string
fossil_bluecrab_core_get_tagged_commit(tag_name) ==
  /\ last' = Returned("get_tagged_commit", tag_name, TaggedCommit(tag_head, tag_name))
  /\ UNCHANGED <<entries, commits, current_commit, branch, now, out_value, tips,
                 disk, tag_head>>

\* fossil_bluecrab_core_shutdown(db) frees what the handle owns; the
\* caller goes on with a second, zeroed handle set up by
\* fossil_bluecrab_core_init.  Neither call touches the static tag_head.
fossil_bluecrab_core_shutdown ==
  /\ entries' = << >>
  /\ commits' = << >>
  /\ current_commit' = NULL
  /\ branch' = "main"
  /\ out_value' = NoValue
  /\ tips' = [b \in BranchArgs |-> Unset]
  /\ last' = Call("shutdown", NULL, NULL, NoValue, FALSE, TRUE)
  /\ UNCHANGED <<now, disk, tag_head>>

\* ------------------------------------------------------------------------
\* Persistence
\* ------------------------------------------------------------------------
\* what save writes of a value: the type tag, and a payload only for
\* FBC_TYPE_I32 and FBC_TYPE_CSTR
SavedValue(value) ==
  CASE value.type = FBC_TYPE_I32 -> Num(FBC_TYPE_I32, value.num)
    [] value.type = FBC_TYPE_CSTR -> Ptr(FBC_TYPE_CSTR, value.ptr)
    [] OTHER -> Num(value.type, 0)

\* what save writes of an entry: key, value, the two timestamps and the
\* hash, each with its length; the metadata is not written
SavedEntry(entry) ==
  [key |-> entry.key, value |-> SavedValue(entry.value),
   created_at |-> entry.created_at, updated_at |-> entry.updated_at,
   hash |-> entry.hash]

SavedEntries(es) == [i \in 1..Len(es) |-> SavedEntry(es[i])]

SavedCommit(c) ==
  [hash |-> c.hash, message |-> c.message, timestamp |-> c.timestamp,
   snapshot |-> SavedEntries(c.snapshot)]

\* the file a save whose writes all succeed leaves at db->db_path
FileImage(es, cs, branch_name, commit_hash) ==
  [exists |-> TRUE, cut |-> FALSE,
   entries |-> SavedEntries(es),
   commits |-> [i \in 1..Len(cs) |-> SavedCommit(cs[i])],
   branch |-> branch_name,
   current_commit |-> commit_hash]

\* a file that ends where the commits end: the branch and the current
\* commit are not in it
CutFile(file) == [file EXCEPT !.cut = TRUE, !.branch = NULL, !.current_commit = NULL]

\* what the bytes of malloc'd memory that load never writes may hold where
\* an entry keeps its metadata pointer
Uninitialised == MetaArgs \cup {NULL}

\* the entry load builds from a saved entry.  metadata is never assigned,
\* and neither is the payload of a type other than I32 and CSTR: a scalar
\* payload is what the memory held; the payload of the other types is
\* read by nothing and is kept as the zero payload value_copy leaves.
LoadedEntry(saved, metadata, payload) ==
  [key |-> saved.key,
   value |-> IF saved.value.type \in ScalarTypes \ {FBC_TYPE_I32}
               THEN Num(saved.value.type, payload)
               ELSE saved.value,
   created_at |-> saved.created_at, updated_at |-> saved.updated_at,
   metadata |-> metadata, hash |-> saved.hash]

\* the entry arrays load may build from the saved array ses, from index i on
RECURSIVE LoadedFrom(_, _)
LoadedFrom(ses, i) ==
  IF i > Len(ses) THEN {<< >>}
  ELSE {<<LoadedEntry(ses[i], metadata, payload)>> \o rest :
          metadata \in Uninitialised, payload \in UninitialisedNum,
          rest \in LoadedFrom(ses, i + 1)}

LoadedEntries(ses) == LoadedFrom(ses, 1)

\* the commit logs load may build from the saved log scs, from index i on
RECURSIVE LoadedCommitsFrom(_, _)
LoadedCommitsFrom(scs, i) ==
  IF i > Len(scs) THEN {<< >>}
  ELSE {<<[hash |-> scs[i].hash, message |-> scs[i].message,
           timestamp |-> scs[i].timestamp, snapshot |-> snapshot]>> \o rest :
          snapshot \in LoadedEntries(scs[i].snapshot),
          rest \in LoadedCommitsFrom(scs, i + 1)}

LoadedCommits(scs) == LoadedCommitsFrom(scs, 1)

\* the faults of the file system during a save: none, fopen of the
\* temporary file fails, the writes fail from the branch name on
NoFault == NULL
SaveFaults == {NoFault, "fopen", "fwrite"}

\* the file at db->db_path after save: fopen failing is the one fault save
\* tests; the results of fwrite and fclose are not looked at and the rename
\* is always made
SavedFile(file, es, cs, branch_name, commit_hash, fault) ==
  CASE fault = "fopen" -> file
    [] fault = "fwrite" -> CutFile(FileImage(es, cs, branch_name, commit_hash))
    [] OTHER -> FileImage(es, cs, branch_name, commit_hash)

fossil_bluecrab_core_save(fault) ==
  /\ disk' = SavedFile(disk, entries, commits, branch, current_commit, fault)
  /\ last' = Call("save", fault, NULL, NoValue, FALSE, fault # "fopen")
  /\ UNCHANGED <<entries, commits, current_commit, branch, now, out_value, tips,
                 tag_head>>

\* what a pointer load sets from malloc of an unread length may be: null,
\* or a block of bytes that were never written
Garbage == "<garbage>"
UninitialisedText == {NULL, Garbage}

\* load goes on whenever fopen succeeds: no fread result is looked at
LoadGoesOn(file) == file.exists

fossil_bluecrab_core_load ==
  /\ IF LoadGoesOn(disk)
       THEN /\ entries' \in LoadedEntries(disk.entries)
            /\ commits' \in LoadedCommits(disk.commits)
            /\ IF disk.cut
                 THEN /\ branch' \in UninitialisedText
                      /\ current_commit' \in UninitialisedText
                 ELSE /\ branch' = disk.branch
                      /\ current_commit' = disk.current_commit
       ELSE UNCHANGED <<entries, commits, branch, current_commit>>
  /\ last' = Call("load", NULL, NULL, NoValue, FALSE, LoadGoesOn(disk))
  /\ UNCHANGED <<now, out_value, tips, disk, tag_head>>

\* the files a crash during save may leave at db->db_path: the old file
\* when the rename was not reached, the new file, or, as nothing makes the
\* temporary file durable between fclose and rename, a renamed file whose
\* last bytes did not reach the disk
AfterCrash(file, es, cs, branch_name, commit_hash) ==
  {file, FileImage(es, cs, branch_name, commit_hash),
   CutFile(FileImage(es, cs, branch_name, commit_hash))}

\* the machine stops during save; the next process starts from
\* fossil_bluecrab_core_init with the file the crash left
CrashInSave ==
  /\ disk' \in AfterCrash(disk, entries, commits, branch, current_commit)
  /\ entries' = << >>
  /\ commits' = << >>
  /\ current_commit' = NULL
  /\ branch' = "main"
  /\ out_value' = NoValue
  /\ tips' = [b \in BranchArgs |-> Unset]
  /\ tag_head' = << >>
  /\ last' = Call("crash", NULL, NULL, NoValue, FALSE, TRUE)
  /\ UNCHANGED now

\* the file at db->db_path loses its end outside the program
Truncate ==
  /\ disk.exists /\ ~disk.cut
  /\ disk' = CutFile(disk)
  /\ last' = Call("truncate", NULL, NULL, NoValue, FALSE, TRUE)
  /\ UNCHANGED <<entries, commits, current_commit, branch, now, out_value, tips,
                 tag_head>>

\* ------------------------------------------------------------------------
\* Specification
\* ------------------------------------------------------------------------
\* one call of the public operations, with its key drawn from keys
StepOn(keys) ==
  \/ \E key \in keys \cup {NULL}, value \in Values :
       fossil_bluecrab_core_set(key, value)
  \/ \E key \in keys \cup {NULL} : fossil_bluecrab_core_get(key)
  \/ \E key \in keys \cup {NULL} : fossil_bluecrab_core_delete(key)
  \/ \E key \in keys \cup {NULL} : fossil_bluecrab_core_has_key(key)
  \/ fossil_bluecrab_core_clear
  \/ \E key \in keys \cup {NULL}, metadata \in MetaArgs \cup {NULL} :
       fossil_bluecrab_core_set_metadata(key, metadata)
  \/ \E message \in MessageArgs \cup {NULL} : fossil_bluecrab_core_commit(message)
  \/ \E id \in CommitArgs \cup {NULL} : fossil_bluecrab_core_checkout(id)
  \/ \E name \in BranchArgs \cup {NULL} : fossil_bluecrab_core_branch(name)
  \/ \E source \in CommitArgs \cup {NULL}, target \in CommitArgs \cup {NULL},
        auto \in BOOLEAN :
       fossil_bluecrab_core_merge(source, target, auto)
  \/ Tick

Step == StepOn(KeyArgs)

Next ==
  /\ calls < MaxCalls
  /\ calls' = calls + 1
  /\ Step

Spec == Init /\ [][Next]_vars

\* the calls that write the live entries and the commit log, with the two
\* reports on the log
HistoryStep ==
  \/ \E key \in KeyArgs, value \in Values : fossil_bluecrab_core_set(key, value)
  \/ \E key \in KeyArgs : fossil_bluecrab_core_delete(key)
  \/ \E message \in MessageArgs : fossil_bluecrab_core_commit(message)
  \/ \E id \in CommitArgs : fossil_bluecrab_core_checkout(id)
  \/ fossil_bluecrab_core_log
  \/ \E a \in CommitArgs \cup {NULL}, b \in CommitArgs \cup {NULL} :
       fossil_bluecrab_core_diff(a, b)
  \/ Tick

HistoryNext ==
  /\ calls < MaxCalls
  /\ calls' = calls + 1
  /\ HistoryStep

HistorySpec == Init /\ [][HistoryNext]_vars

\* the calls that write the commit log, with save and load
PersistStep ==
  \/ \E key \in KeyArgs, value \in Values : fossil_bluecrab_core_set(key, value)
  \/ \E message \in MessageArgs : fossil_bluecrab_core_commit(message)
  \/ \E id \in CommitArgs : fossil_bluecrab_core_checkout(id)
  \/ \E name \in BranchArgs : fossil_bluecrab_core_branch(name)
  \/ \E source \in CommitArgs, target \in CommitArgs, auto \in BOOLEAN :
       fossil_bluecrab_core_merge(source, target, auto)
  \/ fossil_bluecrab_core_save(NoFault)
  \/ fossil_bluecrab_core_load
  \/ Tick

PersistNext ==
  /\ calls < MaxCalls
  /\ calls' = calls + 1
  /\ PersistStep

PersistSpec == Init /\ [][PersistNext]_vars

\* the same calls with the empty string among the keys
EmptyKeyNext ==
  /\ calls < MaxCalls
  /\ calls' = calls + 1
  /\ StepOn(EmptyKeyArgs)

EmptyKeySpec == Init /\ [][EmptyKeyNext]_vars

\* the calls that write the live entries and the commit log, with the tag
\* calls
TagStep ==
  \/ \E key \in KeyArgs, value \in Values : fossil_bluecrab_core_set(key, value)
  \/ \E message \in MessageArgs : fossil_bluecrab_core_commit(message)
  \/ \E id \in CommitArgs : fossil_bluecrab_core_checkout(id)
  \/ \E id \in CommitArgs \cup {NULL}, name \in TagArgs \cup {NULL} :
       fossil_bluecrab_core_tag_commit(id, name)
  \/ \E name \in TagArgs : fossil_bluecrab_core_get_tagged_commit(name)

TagNext ==
  /\ calls < MaxCalls
  /\ calls' = calls + 1
  /\ TagStep

TagSpec == Init /\ [][TagNext]_vars

\* set, commit, save and load with the faults of the file system
FaultStep ==
  \/ \E key \in KeyArgs, value \in PersistValues :
       fossil_bluecrab_core_set(key, value)
  \/ \E message \in MessageArgs : fossil_bluecrab_core_commit(message)
  \/ \E name \in BranchArgs : fossil_bluecrab_core_branch(name)
  \/ \E fault \in SaveFaults : fossil_bluecrab_core_save(fault)
  \/ fossil_bluecrab_core_load
  \/ CrashInSave
  \/ Truncate

FaultNext ==
  /\ calls < MaxCalls
  /\ calls' = calls + 1
  /\ FaultStep

FaultSpec == Init /\ [][FaultNext]_vars

\* the calls that write the live entries, with the two queries
QueryStep ==
  \/ \E key \in QueryKeyArgs, value \in Values : fossil_bluecrab_core_set(key, value)
  \/ \E key \in QueryKeyArgs : fossil_bluecrab_core_delete(key)
  \/ \E pattern \in PatternArgs \cup {NULL} : fossil_bluecrab_core_find_keys(pattern)
  \/ \E pattern \in PatternArgs \cup {NULL} : fossil_bluecrab_core_find_entries(pattern)

QueryNext ==
  /\ calls < MaxCalls
  /\ calls' = calls + 1
  /\ QueryStep

QuerySpec == Init /\ [][QueryNext]_vars

\* the calls that only read, after calls that give them something to read
ReadStep ==
  \/ \E key \in KeyArgs, value \in {Num(FBC_TYPE_I32, 1), Ptr(FBC_TYPE_CSTR, "x")} :
       fossil_bluecrab_core_set(key, value)
  \/ fossil_bluecrab_core_set_metadata("a", "m")
  \/ \E message \in MessageArgs : fossil_bluecrab_core_commit(message)
  \/ fossil_bluecrab_core_tag_commit(CommitName(1), "t")
  \/ \E key \in KeyArgs \cup {NULL} : fossil_bluecrab_core_get(key)
  \/ \E key \in KeyArgs \cup {NULL} : fossil_bluecrab_core_has_key(key)
  \/ \E key \in KeyArgs \cup {NULL} : fossil_bluecrab_core_get_metadata(key)
  \/ \E pattern \in {"a*", NULL} : fossil_bluecrab_core_find_keys(pattern)
  \/ \E pattern \in {"a*", NULL} : fossil_bluecrab_core_find_entries(pattern)
  \/ \E i \in 0..Len(entries) : call_verify_entry(i)
  \/ call_verify_db
  \/ fossil_bluecrab_core_log
  \/ \E a \in CommitArgs \cup {NULL}, b \in CommitArgs \cup {NULL} :
       fossil_bluecrab_core_diff(a, b)

ReadNext ==
  /\ calls < MaxCalls
  /\ calls' = calls + 1
  /\ ReadStep

ReadSpec == Init /\ [][ReadNext]_vars

\* the calls that write the handle or the tag list
LogStep ==
  \/ \E key \in KeyArgs, value \in {Num(FBC_TYPE_I32, 1), Ptr(FBC_TYPE_CSTR, "x")} :
       fossil_bluecrab_core_set(key, value)
  \/ \E key \in KeyArgs : fossil_bluecrab_core_delete(key)
  \/ fossil_bluecrab_core_clear
  \/ \E key \in KeyArgs, metadata \in MetaArgs :
       fossil_bluecrab_core_set_metadata(key, metadata)
  \/ \E message \in MessageArgs : fossil_bluecrab_core_commit(message)
  \/ \E id \in CommitArgs : fossil_bluecrab_core_checkout(id)
  \/ \E name \in BranchArgs : fossil_bluecrab_core_branch(name)
  \/ \E source \in CommitArgs, target \in CommitArgs, auto \in BOOLEAN :
       fossil_bluecrab_core_merge(source, target, auto)
  \/ fossil_bluecrab_core_tag_commit(CommitName(1), "t")

LogNext ==
  /\ calls < MaxCalls
  /\ calls' = calls + 1
  /\ LogStep

LogSpec == Init /\ [][LogNext]_vars

\* the tag calls and save on one handle after another
HandleStep ==
  \/ \E key \in KeyArgs, value \in Values : fossil_bluecrab_core_set(key, value)
  \/ \E message \in MessageArgs : fossil_bluecrab_core_commit(message)
  \/ \E id \in CommitArgs, name \in TagArgs :
       fossil_bluecrab_core_tag_commit(id, name)
  \/ \E name \in TagArgs : fossil_bluecrab_core_get_tagged_commit(name)
  \/ fossil_bluecrab_core_save(NoFault)
  \/ fossil_bluecrab_core_shutdown

HandleNext ==
  /\ calls < MaxCalls
  /\ calls' = calls + 1
  /\ HandleStep

HandleSpec == Init /\ [][HandleNext]_vars

\* set with hex values, commit and diff
HexStep ==
  \/ \E key \in KeyArgs, value \in HexValues \cup {Ptr(FBC_TYPE_CSTR, "x")} :
       fossil_bluecrab_core_set(key, value)
  \/ \E message \in MessageArgs : fossil_bluecrab_core_commit(message)
  \/ \E a \in CommitArgs, b \in CommitArgs : fossil_bluecrab_core_diff(a, b)
  \/ Tick

HexNext ==
  /\ calls < MaxCalls
  /\ calls' = calls + 1
  /\ HexStep

HexSpec == Init /\ [][HexNext]_vars

\* set and find_keys on the keys and patterns of the matcher's branches
MatchStep ==
  \/ \E key \in MatchKeyArgs, value \in Values : fossil_bluecrab_core_set(key, value)
  \/ \E pattern \in MatchPatternArgs : fossil_bluecrab_core_find_keys(pattern)

MatchNext ==
  /\ calls < MaxCalls
  /\ calls' = calls + 1
  /\ MatchStep

MatchSpec == Init /\ [][MatchNext]_vars

\* ------------------------------------------------------------------------
\* Properties
\* ------------------------------------------------------------------------
Keys(es) == {es[i].key : i \in 1..Len(es)}

ValueOf(es, key) == es[FindKey(es, key)].value

HashOf(es, key) == es[FindKey(es, key)].hash

NoDuplicateKeys(es) ==
  \A i \in 1..Len(es), j \in 1..Len(es) : i # j => es[i].key # es[j].key

\* the snapshot of the commit the last call named by its first / second id
SnapshotOf(id) == commits[bluecrab_find_commit(commits, id)].snapshot

Known(id) == id # NULL /\ bluecrab_find_commit(commits, id) # 0

\* some key of both snapshots carries different entry hashes
Conflicting(src, dst) ==
  \E k \in Keys(src) \cap Keys(dst) : HashOf(src, k) # HashOf(dst, k)

Mutators == {"set", "delete", "clear", "set_metadata", "checkout", "merge"}

\* C1 (checkout inverse): a checkout of an id that commit produced succeeds
\* and leaves the live entries equal to the entries recorded at that commit,
\* key by key and field by field, in the same order.
C1_CheckoutInverse ==
  (last.op = "checkout" /\ Known(last.key))
    => (last.ok /\ entries = SnapshotOf(last.key))

\* C2 (snapshot isolation): no step, whatever it does to the live entries,
\* changes the snapshot of a commit that is already in the log.
C2_SnapshotIsolation ==
  [][\A i \in 1..Len(commits) :
       /\ i <= Len(commits')
       /\ commits'[i].snapshot = commits[i].snapshot]_vars

\* a mutator has just succeeded and the live entries differ from a non-empty
\* snapshot that is still in the log
C2_Witness ==
  /\ last.op \in Mutators
  /\ last.ok
  /\ \E i \in 1..Len(commits) :
       commits[i].snapshot # << >> /\ commits[i].snapshot # entries

\* C3 (hash invariant): in every reachable state every live entry's stored
\* hash is the canonical hash of its current fields: verify_db is true.
C3_HashInvariant == fossil_bluecrab_core_verify_db(entries)

\* C4 (merge without auto-resolve, on a conflict): the merge fails and the
\* live entries are exactly the target's snapshot.
C4_MergeAbortLeavesTarget ==
  (/\ last.op = "merge"
   /\ ~last.flag
   /\ Known(last.key) /\ Known(last.key2)
   /\ Conflicting(SnapshotOf(last.key), SnapshotOf(last.key2)))
    => (~last.ok /\ entries = SnapshotOf(last.key2))

\* C5 (merge with auto-resolve on two existing commits): the merge succeeds,
\* the live keys are the union of both snapshots' keys, a key only in source
\* or conflicting holds source's value, any other key holds target's value.
C5_MergeAutoResolve ==
  (last.op = "merge" /\ last.flag /\ Known(last.key) /\ Known(last.key2))
    => LET src == SnapshotOf(last.key)
           dst == SnapshotOf(last.key2)
       IN /\ last.ok
          /\ Keys(entries) = Keys(src) \cup Keys(dst)
          /\ \A k \in Keys(src) \cup Keys(dst) :
               IF k \in Keys(src)
                  /\ (k \notin Keys(dst) \/ HashOf(src, k) # HashOf(dst, k))
                 THEN ValueOf(entries, k) = ValueOf(src, k)
                 ELSE ValueOf(entries, k) = ValueOf(dst, k)

\* an auto-resolved merge has succeeded on snapshots that conflict on a key
\* whose values differ
C5_Witness ==
  /\ last.op = "merge" /\ last.flag /\ last.ok
  /\ Known(last.key) /\ Known(last.key2)
  /\ LET src == SnapshotOf(last.key)
         dst == SnapshotOf(last.key2)
     IN \E k \in Keys(src) \cap Keys(dst) :
          /\ HashOf(src, k) # HashOf(dst, k)
          /\ ValueOf(src, k) # ValueOf(dst, k)

\* C6 (branch tips are remembered): switching to a branch that was left with
\* current commit c makes c the current commit again.
C6_BranchTipRestored ==
  (last.op = "branch" /\ last.ok /\ tips[last.key] # Unset)
    => current_commit = tips[last.key]

C8_EntryOrder ==
  [][(last'.op = "set" /\ last'.ok)
       => LET i == FindKey(entries, last'.key)
          IN IF i = 0
               THEN /\ Len(entries') = Len(entries) + 1
                    /\ entries'[Len(entries')].key = last'.key
                    /\ SubSeq(entries', 1, Len(entries)) = entries
               ELSE /\ Len(entries') = Len(entries)
                    /\ entries'[i].key = last'.key
                    /\ \A j \in 1..Len(entries) :
                         j # i => entries'[j] = entries[j]]_vars

\* the last call was a set that updated the first of two entries
C8_Witness ==
  /\ Len(entries) = 2
  /\ last.op = "set" /\ last.ok
  /\ entries[1].key = last.key
  /\ entries[1].updated_at > entries[1].created_at

\* C9 (set of an existing key is an update): the entry count, the key's
\* created_at and its metadata are unchanged, and a get of the key returns
\* the value that was set.
C9_SetExistingIsUpdate ==
  [][(last'.op = "set" /\ last'.ok /\ FindKey(entries, last'.key) # 0)
       => LET i == FindKey(entries, last'.key)
          IN /\ Len(entries') = Len(entries)
             /\ entries'[i].created_at = entries[i].created_at
             /\ entries'[i].metadata = entries[i].metadata
             /\ fossil_bluecrab_core_value_copy(ValueOf(entries', last'.key))
                  = last'.value]_vars

\* C10 (get): get succeeds exactly when the key is live; a get right after a
\* set of the same key returns the value that was set; a failed get leaves
\* the caller's value as it was, and so does every call that is not a get.
C10_Get ==
  [][/\ (last'.op = "get")
          => /\ last'.ok = (last'.key \in Keys(entries))
             /\ (last.op = "set" /\ last.ok /\ last.key = last'.key)
                  => (last'.ok /\ out_value' = last.value)
             /\ ~last'.ok => out_value' = out_value
     /\ (last'.op # "get") => out_value' = out_value]_vars

\* C11 (delete): deleting a live key succeeds, removes exactly that entry
\* and keeps every other entry, in order; afterwards get and has_key of the
\* key fail.  Deleting an absent key fails and leaves the live set as it was.
C11_Delete ==
  [][(last'.op = "delete")
       => LET i == IF last'.key = NULL THEN 0 ELSE FindKey(entries, last'.key)
          IN IF i # 0
               THEN /\ last'.ok
                    /\ Len(entries') = Len(entries) - 1
                    /\ \A j \in 1..Len(entries') :
                         entries'[j] = IF j < i THEN entries[j] ELSE entries[j + 1]
                    /\ FindKey(entries', last'.key) = 0
                    /\ ~has_key(entries', last'.key)
               ELSE ~last'.ok /\ entries' = entries]_vars

\* a delete has just succeeded and left another entry behind
C11_Witness ==
  /\ last.op = "delete" /\ last.ok
  /\ Len(entries) >= 1
  /\ last.key \notin Keys(entries)

\* C12 (empty key): set, delete and set_metadata called with the empty key
\* fail, and no live entry has the empty string as its key.
C12_EmptyKeyRejected ==
  /\ (last.op \in {"set", "delete", "set_metadata"} /\ last.key = "")
       => ~last.ok
  /\ "" \notin Keys(entries)

\* C13 (checkout of an unknown id): the call fails and the live entries,
\* the commit log, the current commit and the branch are what they were.
C13_CheckoutUnknown ==
  [][(last'.op = "checkout" /\ ~Known(last'.key))
       => /\ ~last'.ok
          /\ entries' = entries
          /\ commits' = commits
          /\ current_commit' = current_commit
          /\ branch' = branch]_vars

\* a checkout of an id that is not in the log has just failed on a database
\* that has live entries and commits
C13_Witness ==
  /\ last.op = "checkout" /\ ~last.ok
  /\ last.key # NULL /\ ~Known(last.key)
  /\ entries # << >>
  /\ commits # << >>

\* C14 (successful checkout): the current commit becomes the id checked
\* out; the branch name and the commit log are unchanged.
C14_CheckoutFrame ==
  [][(last'.op = "checkout" /\ last'.ok)
       => /\ current_commit' = last'.key
          /\ branch' = branch
          /\ commits' = commits]_vars

\* the older of two commits has just been checked out on branch dev
C14_Witness ==
  /\ last.op = "checkout" /\ last.ok
  /\ Len(commits) = 2
  /\ last.key = commits[1].hash
  /\ current_commit = commits[1].hash
  /\ branch = "dev"

\* the number N of the id "commit_N"
CommitNumber(id) == CHOOSE n \in 1..(MaxCommits + 1) : CommitName(n) = id

\* C15 (commit ids): the ids of the log are pairwise different and increase
\* along the log, so a commit that is appended has an id greater than the id
\* of every commit already there; also after save and load.
C15_CommitIdsIncrease ==
  \A i \in 1..Len(commits), j \in 1..Len(commits) :
    i < j => /\ commits[i].hash # commits[j].hash
             /\ CommitNumber(commits[i].hash) < CommitNumber(commits[j].hash)

\* a commit has just been appended to a log that load had read back (only
\* load leaves metadata on an entry under PersistSpec)
C15_Witness ==
  /\ last.op = "commit" /\ last.ok
  /\ Len(commits) = 2
  /\ \E k \in 1..Len(commits[1].snapshot) : commits[1].snapshot[k].metadata # NULL

\* C16 (parent of a commit): commit records the current commit at the time
\* of the call as the parent of the new commit (none when there is none), so
\* every parent in the log is empty or the id of an earlier commit.
C16_ParentRecorded ==
  [][/\ (last'.op = "commit" /\ last'.ok)
          => parent_id(commits'[Len(commits')]) = current_commit
     /\ \A i \in 1..Len(commits') :
          \/ parent_id(commits'[i]) = NULL
          \/ \E j \in 1..(i - 1) : commits'[j].hash = parent_id(commits'[i])]_vars

CommitById(id) == commits[bluecrab_find_commit(commits, id)]

\* the ids from id back through the recorded parents, at most n of them
RECURSIVE Ancestry(_, _)
Ancestry(id, n) ==
  IF n = 0 \/ ~Known(id) THEN << >>
  ELSE <<id>> \o Ancestry(parent_id(CommitById(id)), n - 1)

\* C17 (log): log lists exactly the commits reachable from the current
\* commit through the parent links, the newest first.
C17_LogNewestFirst ==
  (last.op = "log")
    => LET chain == Ancestry(current_commit, Len(commits))
       IN last.out = [i \in 1..Len(chain) |-> <<"commit", chain[i]>>]

Lines(report) == {report[i] : i \in 1..Len(report)}

KeysReported(report, kind) == {l[2] : l \in {x \in Lines(report) : x[1] = kind}}

\* C18 (diff classes): diff(a, b) reports a key as removed iff only a has
\* it, as added iff only b has it, as modified iff both have it with
\* different hashes, and reports no key twice and no other key.
C18_DiffClasses ==
  (last.op = "diff" /\ last.ok)
    => LET sa == SnapshotOf(last.key)
           sb == SnapshotOf(last.key2)
       IN /\ KeysReported(last.out, "removed") = Keys(sa) \ Keys(sb)
          /\ KeysReported(last.out, "added") = Keys(sb) \ Keys(sa)
          /\ KeysReported(last.out, "modified")
               = {k \in Keys(sa) \cap Keys(sb) : HashOf(sa, k) # HashOf(sb, k)}
          /\ \A i \in 1..Len(last.out), j \in 1..Len(last.out) :
               i # j => last.out[i][2] # last.out[j][2]
          /\ \A l \in Lines(last.out) : l[1] \in {"removed", "added", "modified"}

\* a diff has just reported a modified key
C18_Witness ==
  /\ last.op = "diff" /\ last.ok
  /\ KeysReported(last.out, "modified") # {}

\* strcmp(s, t) < 0 on the byte strings
RECURSIVE BytesLess(_, _)
BytesLess(x, y) ==
  IF y = << >> THEN FALSE
  ELSE IF x = << >> THEN TRUE
  ELSE IF Head(x) # Head(y) THEN Head(x) < Head(y)
  ELSE BytesLess(Tail(x), Tail(y))

Segment(kind) == CASE kind = "removed" -> 1 [] kind = "modified" -> 2
                   [] kind = "added" -> 3

\* C19 (diff order): the report is the removed keys, then the modified
\* keys, then the added keys, each group sorted by key.
C19_DiffSorted ==
  (last.op = "diff" /\ last.ok)
    => \A i \in 1..Len(last.out), j \in 1..Len(last.out) :
         i < j => \/ Segment(last.out[i][1]) < Segment(last.out[j][1])
                  \/ /\ Segment(last.out[i][1]) = Segment(last.out[j][1])
                     /\ BytesLess(StrBytes(last.out[i][2]),
                                  StrBytes(last.out[j][2]))

\* C20 (diff symmetry): what diff(b, a) reports as added is what diff(a, b)
\* reports as removed and the other way round, and both report the same
\* modified keys.
C20_DiffSymmetry ==
  (last.op = "diff" /\ last.ok)
    => LET back == DiffLines(SnapshotOf(last.key2), SnapshotOf(last.key))
       IN /\ KeysReported(back, "added") = KeysReported(last.out, "removed")
          /\ KeysReported(back, "removed") = KeysReported(last.out, "added")
          /\ KeysReported(back, "modified") = KeysReported(last.out, "modified")

\* a diff of two different commits has just reported an added key
C20_Witness ==
  /\ last.op = "diff" /\ last.ok
  /\ last.key # last.key2
  /\ KeysReported(last.out, "added") # {}

\* C21 (merge commit): a successful merge appends exactly one commit; its
\* message is "merge commit", its snapshot is the merged live set, its
\* parent is the commit that was current before the merge, and it becomes
\* the current commit.
C21_MergeCommit ==
  [][(last'.op = "merge" /\ last'.ok)
       => /\ Len(commits') = Len(commits) + 1
          /\ SubSeq(commits', 1, Len(commits)) = commits
          /\ LET c == commits'[Len(commits')]
             IN /\ c.message = "merge commit"
                /\ c.snapshot = entries'
                /\ parent_id(c) = current_commit
                /\ current_commit' = c.hash]_vars

C23_TagsNameCommits ==
  /\ \A i \in 1..Len(tag_head) : Known(tag_head[i].commit_hash)
  /\ (last.op = "tag_commit" /\ last.ok) => Known(last.key)

\* a load that follows a successful save at once
LoadAfterSave == last.op = "save" /\ last.ok /\ last.key = NoFault /\ last'.op = "load"

\* C24 (save/load round trip): a load that follows a save yields the
\* entries (metadata included), the commits with their snapshots, the tags,
\* the branch and the current commit the database had when it was saved.
C24_RoundTrip ==
  [][LoadAfterSave
       => /\ last'.ok
          /\ entries' = entries
          /\ commits' = commits
          /\ tag_head' = tag_head
          /\ branch' = branch
          /\ current_commit' = current_commit]_vars

\* C25 (value round trip): after a save followed by a load every live
\* entry holds the value it held before, whatever the variant.
C25_ValueRoundTrip ==
  [][LoadAfterSave
       => /\ Len(entries') = Len(entries)
          /\ \A i \in 1..Len(entries) : entries'[i].value = entries[i].value]_vars

KeySeq(es) == [i \in 1..Len(es) |-> es[i].key]

\* C26 (verification after load): when the live entries all verify at the
\* save, the load yields the same keys in the same order and entries that
\* all verify.
C26_LoadVerifies ==
  [][(LoadAfterSave /\ fossil_bluecrab_core_verify_db(entries))
       => /\ KeySeq(entries') = KeySeq(entries)
          /\ fossil_bluecrab_core_verify_db(entries')]_vars

\* C27 (save under a write failure): a save during which a write to the
\* temporary file fails reports failure and leaves the file at the
\* database path as it was.
C27_SaveAllOrNothing ==
  [][(last'.op = "save" /\ last'.key = "fwrite")
       => (~last'.ok /\ disk' = disk)]_vars

\* C28 (crash during save): after a crash at any step of save the file at
\* the database path is the complete previous file or the complete new one.
C28_CrashAtomicity ==
  [][(last'.op = "crash")
       => \/ disk' = disk
          \/ disk' = FileImage(entries, commits, branch, current_commit)]_vars

\* C29 (load of a truncated file): the load fails and leaves the entries,
\* the commits, the branch and the current commit as they were.
C29_TruncatedLoadFails ==
  [][(last'.op = "load" /\ disk.exists /\ disk.cut)
       => /\ ~last'.ok
          /\ entries' = entries
          /\ commits' = commits
          /\ branch' = branch
          /\ current_commit' = current_commit]_vars

\* the patterns of the model that are a head without special bytes followed
\* by one '*'
HeadStarPatterns == {"a*", "*"}

HeadOf(pattern) == SubSeq(StrBytes(pattern), 1, Len(StrBytes(pattern)) - 1)

BeginsWith(key, head) ==
  /\ Len(head) <= Len(StrBytes(key))
  /\ SubSeq(StrBytes(key), 1, Len(head)) = head

\* how many items of the sequence are x
Occurrences(items, x) == Cardinality({i \in 1..Len(items) : items[i] = x})

FoldRequested(pattern) ==
  /\ Len(StrBytes(pattern)) >= 4
  /\ SubSeq(StrBytes(pattern), 1, 4) = <<40, 63, 105, 41>>

PatternBody(pattern) ==
  IF FoldRequested(pattern)
    THEN SubSeq(StrBytes(pattern), 5, Len(StrBytes(pattern)))
    ELSE StrBytes(pattern)

Fold(bytes) == [i \in 1..Len(bytes) |-> ToLower(bytes[i])]

\* the key is the bytes, character for character, case-folded on request
SameText(key, bytes, fold) ==
  IF fold THEN Fold(StrBytes(key)) = Fold(bytes) ELSE StrBytes(key) = bytes

Stars(bytes) == Cardinality({i \in 1..Len(bytes) : bytes[i] = 42})

FoundSet == {last.out[i] : i \in 1..Len(last.out)}

\* C31 (leading ^): a pattern ^rest matches a key iff the key is rest,
\* character for character (case-folded under (?i)); a key that has rest
\* as a proper prefix does not match.
C31_CaretIsWholeKey ==
  (last.op = "find_keys" /\ last.ok /\ PatternBody(last.key) # << >>
     /\ Head(PatternBody(last.key)) = 94)
    => FoundSet = {key \in Keys(entries) :
                     SameText(key, Tail(PatternBody(last.key)),
                              FoldRequested(last.key))}

\* C32 (several stars): a pattern with more than one * matches no key,
\* also not a key that contains *.
C32_SeveralStarsMatchNothing ==
  (last.op = "find_keys" /\ last.ok /\ Stars(PatternBody(last.key)) > 1)
    => last.out = << >>

\* C33 (empty pattern): the empty pattern, also after a (?i) prefix,
\* matches every stored key, so find_keys returns all the live keys.
C33_EmptyPatternMatchesAll ==
  (last.op = "find_keys" /\ last.ok /\ PatternBody(last.key) = << >>)
    => last.out = KeySeq(entries)

\* the same for the stored keys that are not the empty string
EmptyPatternMatchesNonEmpty ==
  (last.op = "find_keys" /\ last.ok /\ PatternBody(last.key) = << >>)
    => last.out = SelectSeq(KeySeq(entries), LAMBDA k : k # "")

\* the entries of the handle: the live ones and those of the snapshots
AllEntries ==
  {entries[i] : i \in 1..Len(entries)}
    \cup UNION {{commits[c].snapshot[i] : i \in 1..Len(commits[c].snapshot)} :
                  c \in 1..Len(commits)}

\* two entries that differ in the text of a hex, oct or bin value and in
\* nothing else that is hashed
DifferInTextOnly(e1, e2) ==
  /\ e1.value.type \in {FBC_TYPE_HEX, FBC_TYPE_OCT, FBC_TYPE_BIN}
  /\ e2.value.type = e1.value.type
  /\ StrBytes(e1.value.ptr) # StrBytes(e2.value.ptr)
  /\ e1.key = e2.key
  /\ e1.metadata = e2.metadata
  /\ e1.created_at = e2.created_at
  /\ e1.updated_at = e2.updated_at

\* C34 (hash stream of text values): the canonical stream holds the raw
\* text bytes of a hex, oct or bin value, so two entries that differ only
\* in that text have different streams.
C34_TextInStream ==
  \A e1 \in AllEntries, e2 \in AllEntries :
    DifferInTextOnly(e1, e2) => CanonicalStream(e1) # CanonicalStream(e2)

\* C35 (tags belong to a handle): a tag bound through one handle is not
\* seen through another; once a handle is shut down its tags resolve to
\* nothing, so a lookup through the handle opened next finds no commit.
C35_TagsOfTheHandle ==
  [][(last.op = "shutdown" /\ last'.op = "get_tagged_commit")
       => last'.key2 = NULL]_vars

\* what a commit is made of, as far as a commit record or its image in the
\* file keeps it: message, timestamp and the hashes of the snapshot
CommitInput(c) ==
  <<c.message, c.timestamp, [i \in 1..Len(c.snapshot) |-> c.snapshot[i].hash]>>

\* C36 (commit id): the id is a function of the commit's input, so two
\* commits that differ in message, timestamp or snapshot hashes have
\* different ids; here a commit of the handle and a commit an earlier
\* handle wrote to the file.
C36_IdFromInput ==
  disk.exists =>
    \A i \in 1..Len(commits), j \in 1..Len(disk.commits) :
      CommitInput(commits[i]) # CommitInput(disk.commits[j])
        => commits[i].hash # disk.commits[j].hash

\* C37 (append-only log): no call removes a commit of the log or changes
\* the id, message, timestamp or snapshot of one; the commits stay in the
\* order they were made in, new ones behind them.
C37_LogAppendOnly ==
  [][/\ Len(commits') >= Len(commits)
     /\ \A i \in 1..Len(commits) :
          /\ commits'[i].hash = commits[i].hash
          /\ commits'[i].message = commits[i].message
          /\ commits'[i].timestamp = commits[i].timestamp
          /\ commits'[i].snapshot = commits[i].snapshot]_vars

\* a second commit was made behind a first with another snapshot, and a
\* checkout has run on that log
C37_Witness ==
  /\ Len(commits) >= 2
  /\ commits[1].snapshot # commits[2].snapshot
  /\ last.op = "checkout"
  /\ last.ok

\* C38 (failed merge): a merge that fails appends no commit and leaves
\* the current commit and the branch as they were; when it fails because
\* a commit is unknown, the live entries stay as they were too.
C38_FailedMerge ==
  [][(last'.op = "merge" /\ ~last'.ok)
       => /\ commits' = commits
          /\ current_commit' = current_commit
          /\ branch' = branch
          /\ (~(Known(last'.key) /\ Known(last'.key2)) => entries' = entries)]_vars

\* a merge of two known commits stopped at a conflict
C38_Witness ==
  /\ last.op = "merge"
  /\ ~last.ok
  /\ Known(last.key)
  /\ Known(last.key2)
  /\ Conflicting(SnapshotOf(last.key), SnapshotOf(last.key2))

\* C39 (current commit): in every reachable state the current commit is
\* empty or the id of a commit in the log.
C39_CurrentCommitInLog == current_commit = NULL \/ Known(current_commit)

\* the other half of the sentence: commit, checkout and merge are the only
\* calls that change the current commit
CurrentCommitWriters ==
  [][current_commit' # current_commit
       => last'.op \in {"commit", "checkout", "merge"}]_vars

ReadOps ==
  {"get", "has_key", "get_metadata", "find_keys", "find_entries",
   "verify_entry", "verify_db", "log", "diff"}

\* C40 (reads change nothing): get, has_key, get_metadata, find_keys,
\* find_entries, verify_entry, verify_db, log and diff, whether they
\* succeed or fail, leave the live entries, the commit log, the current
\* commit, the current branch and the tag bindings as they were.
C40_ReadsChangeNothing ==
  [][last'.op \in ReadOps
       => UNCHANGED <<entries, commits, current_commit, branch, tag_head>>]_vars

\* a get found its key in a handle with a commit and a tag
C40_Witness ==
  /\ last.op = "get"
  /\ last.ok
  /\ out_value = ValueOf(entries, last.key)
  /\ commits # << >>
  /\ tag_head # << >>

\* a verify_db failed on an entry whose metadata was set after its hash
C40_WitnessFailed ==
  /\ last.op = "verify_db"
  /\ ~last.ok
  /\ commits # << >>
====
